---- MODULE Spec2Model ----
(***************************************************************************)
(* Model of tools/driver-tool/sratools.cpp: the accession classifier       *)
(* (SRA_AccessionType), the accession expander (expandAll) and the         *)
(* dispatcher (processAccessions / processRun / processSource).            *)
(*                                                                         *)
(* Strings that the code inspects character by character or concatenates   *)
(* are sequences of one-character strings; names that are only compared    *)
(* (parameter names, source labels) are plain strings.                     *)
(***************************************************************************)
EXTENDS Integers, Sequences, FiniteSets, TLC

VARIABLES
    query,          \* SRA_AccessionType: the string being classified
    phase,          \* how the classifier input is being built
    atype,          \* SRA_AccessionType: the value returned for query
    accessions,     \* processAccessions: the accession list (ArgsList)
    readable,       \* the strings for which access(acc, R_OK) == 0
    unsafeOutputFileParamName, \* processAccessions: char const *, or NULL
    parameters,     \* processAccessions: ParamList (name, optional value)
    dryrun,         \* getenv("SRATOOLS_DRY_RUN"): <<>> unset, <<v>> set to v
    pc,             \* where the dispatcher is
    runs,           \* processAccessions: the list expandAll returned
    outputFile,     \* processAccessions: index in parameters, 0 for end()
    runIdx,         \* processAccessions: position of the loop over runs
    sources,        \* processRun: the list data_sources(run) returned
    srcIdx,         \* processRun: position of the loop over sources
    child,          \* processSource: the child process, <<>> when none
    classified,     \* the accessions SRA_AccessionType was called on
    resolved,       \* history of data_sources calls: run and list returned
    attempts,       \* history of children: run, source, argv, result
    cerr,           \* what was written to std::cerr and LOG (kind, text)
    cout,           \* what was written to std::cout (kind, text)
    exits,          \* how the dispatcher process ended (at most one entry)
    image           \* the arguments of the program that replaced the
                    \* dispatcher, <<>> while none did

vars == <<query, phase, atype, accessions, readable,
          unsafeOutputFileParamName, parameters, dryrun, pc, runs,
          outputFile, runIdx, sources, srcIdx, child, classified, resolved,
          attempts, cerr, cout, exits, image>>

classifierVars == <<query, phase, atype>>

inputVars == <<accessions, readable, unsafeOutputFileParamName, parameters,
               dryrun>>

dispatchVars == <<pc, runs, outputFile, runIdx, sources, srcIdx, child,
                  classified, resolved, attempts, cerr, cout, exits, image>>

-----------------------------------------------------------------------------
(* Bounds of the model.                                                    *)

MaxFreeLen == 3         \* classifier input: leading characters chosen freely
MaxDigits == 10         \* classifier input: digits appended after them
MaxTailLen == 2         \* classifier input: characters appended after those
MaxAccessions == 2      \* length of the accession list
MaxSources == 2         \* length of a resolver source list

(* Program constants.                                                      *)

EX_UNAVAILABLE == 69    \* <sysexits.h>
EX_TEMPFAIL == 75       \* <sysexits.h>
NoCode == -1            \* the process ended without an exit code

NULL == "NULL"

-----------------------------------------------------------------------------
(* Characters.                                                             *)

CharCode(c) ==
    CASE c = "." -> 46  [] c = "/" -> 47
      [] c = "0" -> 48  [] c = "1" -> 49  [] c = "2" -> 50  [] c = "9" -> 57
      [] c = ":" -> 58
      [] c = "A" -> 65  [] c = "D" -> 68  [] c = "E" -> 69  [] c = "P" -> 80
      [] c = "R" -> 82  [] c = "S" -> 83  [] c = "X" -> 88  [] c = "Z" -> 90
      [] OTHER -> 97

\* line 141 with one more digit allowed
AcceptDigitsTen(type, digits) ==
    IF 6 <= digits /\ digits <= 10 THEN type ELSE 0

\* line 141: return (6 <= digits && digits <= 9) ? type : 0;
AcceptDigits(type, digits) ==
    IF 6 <= digits /\ digits <= 9 THEN type ELSE 0

\* the loop of lines 94-140, at character k of query in state st
RECURSIVE ScanFrom(_, _, _, _, _)
ScanFrom(q, k, st, type, digits) ==
    IF k > Len(q) THEN AcceptDigits(type, digits)
    ELSE LET i == q[k] IN
        CASE st = 0 ->
                IF i \in {"D", "E", "S"}
                THEN ScanFrom(q, k + 1, 1, type, digits)
                ELSE 0
          [] st = 1 ->
                IF i # "R" THEN 0
                ELSE ScanFrom(q, k + 1, 2, type, digits)
          [] st = 2 ->
                IF i \in {"A", "P", "R", "S", "X"}
                THEN ScanFrom(q, k + 1, 3, CharCode(i), digits)
                ELSE 0
          [] OTHER ->
                IF i = "." THEN AcceptDigits(type, digits)
                ELSE IF ~(CharCode("0") <= CharCode(i)
                          /\ CharCode(i) <= CharCode("9")) THEN 0
                ELSE ScanFrom(q, k + 1, 3, type, digits + 1)

SRA_AccessionType(q) == ScanFrom(q, 1, 0, 0, 0)

-----------------------------------------------------------------------------
(* The strings the dispatcher model is run on.                             *)

SRR000001 == <<"S", "R", "R", "0", "0", "0", "0", "0", "1">>   \* a run
SRP000001 == <<"S", "R", "P", "0", "0", "0", "0", "0", "1">>   \* a project
ERX000002 == <<"E", "R", "X", "0", "0", "0", "0", "0", "2">>   \* an experiment
SRR00001 == <<"S", "R", "R", "0", "0", "0", "0", "1">>         \* 5 digits

AccessionNames == {SRR000001, SRP000001, ERX000002, SRR00001}

ReadableSets == {{}, {SRP000001}}

DevNull == <<"/", "d", "e", "v", "/", "n", "u", "l", "l">>
OutFq == <<"o", ".", "f", "q">>
DotFastq == <<".", "f", "a", "s", "t", "q">>

\* running_as_tool<FASTERQ_DUMP>("--outfile", ".fastq"), line 429
extension == DotFastq

\* an optional string: absent, or present with a value
None == <<>>
Some(v) == <<v>>

\* a ParamList entry: first is the name, second the optional value
Param(name, value) == [first |-> name, second |-> value]

ParamLists ==
    { << Param("--threads", Some(<<"4">>)), Param("--outfile", Some(OutFq)),
         Param("--split-3", None) >>,
      << Param("--outfile", Some(DevNull)) >>,
      << Param("--split-3", None) >> }

UnsafeNames == {NULL, "--outfile"}

DryRunValues == {None, Some(<<>>), Some(<<"0">>), Some(<<"1">>)}

SourceLabels == <<"ncbi", "s3", "gs">>

\* the lists data_sources(run) can return: a prefix of the ranked services
SourceLists == {SubSeq(SourceLabels, 1, n) : n \in 0..MaxSources}

Signals == {9}

ToolErrorCodes == {1, 3}

SeqsUpTo(S, n) == UNION {[1..m -> S] : m \in 0..n}

Range(s) == {s[i] : i \in DOMAIN s}

-----------------------------------------------------------------------------
(* expandAll, lines 144-185.                                               *)

TypeR == CharCode("R")
ContainerTypes == {CharCode("P"), CharCode("S"), CharCode("X")}

\* line 158 without the negation's effect: every accession is classified
NeedsClassifyAlways(acc) == TRUE

\* line 158: access(acc.c_str(), R_OK) != 0
NeedsClassify(acc) == acc \notin readable

\* lines 152-153 with the membership test lost
AlreadySeenNever(seen, acc) == FALSE

\* lines 152-153: seen.find(acc) != seen.end()
AlreadySeen(seen, acc) == acc \in seen

\* lines 165-167 with only case 'P'
IsContainerTypeProjectOnly(type) == type = CharCode("P")

\* lines 165-167 without case 'X'
IsContainerTypeNoExperiment(type) == type \in {CharCode("P"), CharCode("S")}

\* lines 165-167: case 'P': case 'S': case 'X':
IsContainerType(type) == type \in ContainerTypes

\* the locals of expandAll before the loop, lines 147-149
ExpandStart ==
    [result |-> <<>>, seen |-> {}, failed |-> FALSE, diag |-> <<>>,
     called |-> {}]

\* lines 151-179 with line 178 putting acc at the front of result
ExpandBodyFront(s, acc) ==
    IF AlreadySeen(s.seen, acc) THEN s
    ELSE LET container == NeedsClassify(acc)
                          /\ IsContainerType(SRA_AccessionType(acc))
         IN [result |-> <<acc>> \o s.result,
             seen   |-> s.seen \cup {acc},
             failed |-> s.failed \/ container,
             diag   |-> IF container THEN Append(s.diag, acc) ELSE s.diag,
             called |-> IF NeedsClassify(acc) THEN s.called \cup {acc}
                        ELSE s.called]

\* one iteration of the loop of lines 151-179
ExpandBody(s, acc) ==
    IF AlreadySeen(s.seen, acc) THEN s
    ELSE LET container == NeedsClassify(acc)
                          /\ IsContainerType(SRA_AccessionType(acc))
         IN [result |-> Append(s.result, acc),
             seen   |-> s.seen \cup {acc},
             failed |-> s.failed \/ container,
             diag   |-> IF container THEN Append(s.diag, acc) ELSE s.diag,
             called |-> IF NeedsClassify(acc) THEN s.called \cup {acc}
                        ELSE s.called]

RECURSIVE ExpandLoop(_, _, _)
ExpandLoop(s, accs, k) ==
    IF k > Len(accs) THEN s
    ELSE ExpandLoop(ExpandBody(s, accs[k]), accs, k + 1)

\* the locals of expandAll at line 180
expandAll(accs) == ExpandLoop(ExpandStart, accs, 1)

-----------------------------------------------------------------------------
(* The dispatcher: processAccessions, processRun, processSource.           *)

Msg(kind, text) == [msg |-> kind, text |-> text]

Exit(code) == [kind |-> "exit", code |-> code]
Abort == [kind |-> "abort", code |-> NoCode]
Exec == [kind |-> "exec", code |-> NoCode]

Exited(code) == [kind |-> "exited", code |-> code]
Signaled(sig) == [kind |-> "signaled", code |-> sig]
Running == [kind |-> "running", code |-> NoCode]

\* lines 514-521 with runs.size() > 0 for runs.size() > 1
FindOutputFileAnyRuns(rs, name, params) ==
    IF Len(rs) > 0 /\ name # NULL
    THEN LET hits == {i \in DOMAIN params :
                        /\ params[i].first = name
                        /\ params[i].second[1] # DevNull}
         IN IF hits = {} THEN 0
            ELSE CHOOSE i \in hits : \A j \in hits : i <= j
    ELSE 0

\* lines 514-521: the entry the loop stops at, 0 for parameters.end()
FindOutputFile(rs, name, params) ==
    IF Len(rs) > 1 /\ name # NULL
    THEN LET hits == {i \in DOMAIN params :
                        /\ params[i].first = name
                        /\ params[i].second[1] # DevNull}
         IN IF hits = {} THEN 0
            ELSE CHOOSE i \in hits : \A j \in hits : i <= j
    ELSE 0

\* lines 199-201: the file names print_unsafe_output_file_message lists
UnsafeOutputFiles(rs) == [k \in DOMAIN rs |-> rs[k] \o extension]

\* line 210 with the negation lost
IsDryRunZero(env) == env # None /\ env[1] # <<>> /\ env[1] = <<"0">>

\* line 210: dryrun && dryrun[0] && !(dryrun[0] == '0' && dryrun[1] == 0)
IsDryRun(env) == env # None /\ env[1] # <<>> /\ env[1] # <<"0">>

\* lines 276-277 left out: the child passes the parameters as it got them
ChildParametersKept(params, out, run) == params

\* lines 276-277 as an erase of the entry and an insert at the end
ChildParametersMoveLast(params, out, run) ==
    IF out # 0
    THEN Append(SubSeq(params, 1, out - 1) \o SubSeq(params, out + 1, Len(params)),
                Param(params[out].first, Some(run \o extension)))
    ELSE params

\* lines 276-277: the parameters as the child leaves them for exec
ChildParameters(params, out, run) ==
    IF out # 0 THEN [params EXCEPT ![out].second = Some(run \o extension)]
    ELSE params

Finish(how) ==
    /\ exits' = Append(exits, how)
    /\ pc' = "done"

\* lines 324-328, toolHelp: the arguments after argv0 are "--help"
EmptyInvocationArgvHelp == << "--help" >>

\* lines 334-337: char const *argv[] = { argv0->c_str(), NULL };
EmptyInvocationArgv == << >>

\* lines 508-510: emptyInvocation(toolpath), execve of lines 333-340
EmptyInvocation ==
    /\ pc = "processAccessions"
    /\ accessions = <<>>
    /\ Finish(Exec)
    /\ image' = << EmptyInvocationArgv >>
    /\ UNCHANGED <<runs, outputFile, runIdx, sources, srcIdx, child,
                   classified, resolved, attempts, cerr, cout>>
    /\ UNCHANGED <<classifierVars, inputVars>>

\* line 511 into expandAll, lines 180-183: exit(EX_UNAVAILABLE)
ExpandAllExit ==
    /\ pc = "processAccessions"
    /\ accessions # <<>>
    /\ LET e == expandAll(accessions) IN
        /\ e.failed
        /\ classified' = e.called
        /\ cerr' = cerr
                   \o [i \in DOMAIN e.diag |-> Msg("container", e.diag[i])]
                   \o << Msg("no_expansion", <<>>) >>
    /\ Finish(Exit(EX_UNAVAILABLE))
    /\ UNCHANGED <<runs, outputFile, runIdx, sources, srcIdx, child,
                   resolved, attempts, cout>>
    /\ UNCHANGED <<classifierVars, inputVars, image>>

\* lines 511-522: expandAll returns, the output-file entry is looked up
ProcessAccessions ==
    /\ pc = "processAccessions"
    /\ accessions # <<>>
    /\ LET e == expandAll(accessions)
           out == FindOutputFile(e.result, unsafeOutputFileParamName,
                                 parameters)
       IN
        /\ ~e.failed
        /\ classified' = e.called
        /\ runs' = e.result
        /\ outputFile' = out
        /\ cout' = IF out # 0
                   THEN Append(cout, Msg("files", UnsafeOutputFiles(e.result)))
                   ELSE cout
    /\ runIdx' = 1
    /\ pc' = "processRun"
    /\ UNCHANGED <<sources, srcIdx, child, resolved, attempts, cerr, exits>>
    /\ UNCHANGED <<classifierVars, inputVars, image>>

\* lines 265-270: data_sources(run) is empty, processRun returns
DataSourcesEmpty ==
    /\ pc = "processRun"
    /\ runIdx <= Len(runs)
    /\ <<>> \in SourceLists
    /\ resolved' = Append(resolved, [run |-> runs[runIdx], sources |-> <<>>])
    /\ cerr' = Append(cerr, Msg("no_source", runs[runIdx]))
    /\ runIdx' = runIdx + 1
    /\ UNCHANGED <<pc, runs, outputFile, sources, srcIdx, child, classified,
                   attempts, cout, exits>>
    /\ UNCHANGED <<classifierVars, inputVars, image>>

\* lines 265-274: data_sources(run) is not empty, the loop starts
DataSources ==
    /\ pc = "processRun"
    /\ runIdx <= Len(runs)
    /\ \E list \in SourceLists \ {<<>>} :
        /\ resolved' = Append(resolved,
                              [run |-> runs[runIdx], sources |-> list])
        /\ sources' = list
    /\ srcIdx' = 1
    /\ pc' = "processSource"
    /\ UNCHANGED <<runs, outputFile, runIdx, child, classified, attempts,
                   cerr, cout, exits>>
    /\ UNCHANGED <<classifierVars, inputVars, image>>

\* process::run_child of proc.hpp: the child code runs in a new process,
\* what it does to memory and how it exits stay there, and the caller gets
\* the handle of that process (here the child's place in attempts)
run_child(n) == << n >>

\* line 236 and the child's code, lines 275-282
RunChild ==
    /\ pc = "processSource"
    /\ attempts' = Append(attempts,
            [run    |-> runIdx,
             src    |-> srcIdx,
             label  |-> sources[srcIdx],
             argv   |-> ChildParameters(parameters, outputFile, runs[runIdx]),
             arg    |-> runs[runIdx],
             dry    |-> IsDryRun(dryrun),
             result |-> Running])
    /\ child' = run_child(Len(attempts) + 1)
    /\ pc' = "wait"
    /\ UNCHANGED <<runs, outputFile, runIdx, sources, srcIdx, classified,
                   resolved, cerr, cout, exits>>
    /\ UNCHANGED <<classifierVars, inputVars, image>>

\* line 237 not blocking: wait() returns while the child still runs
WaitedEarly(result) ==
    /\ pc = "wait"
    /\ child # <<>>
    /\ attempts' = attempts
    /\ child' = <<>>

\* line 237: child.wait() returns result
Waited(result) ==
    /\ pc = "wait"
    /\ child # <<>>
    /\ attempts' = [attempts EXCEPT ![child[1]].result = result]
    /\ child' = <<>>

\* lines 283-284 without the break: the loop goes on after a success
AfterSuccessNoBreak(i, list) ==
    IF i < Len(list)
    THEN [pc |-> "processSource", run |-> runIdx, src |-> i + 1,
          sources |-> list]
    ELSE [pc |-> "processRun", run |-> runIdx + 1, src |-> 0,
          sources |-> <<>>]

\* lines 283-284: if (success) break; processRun returns, next run
AfterSuccess(i, list) ==
    [pc |-> "processRun", run |-> runIdx + 1, src |-> 0, sources |-> <<>>]

\* lines 239-243 and 283-284: exit code 0, the run is done
ChildSucceeded ==
    /\ Waited(Exited(0))
    /\ LET then == AfterSuccess(srcIdx, sources) IN
        /\ runIdx' = then.run
        /\ sources' = then.sources
        /\ srcIdx' = then.src
        /\ pc' = then.pc
    /\ UNCHANGED <<runs, outputFile, classified, resolved, cerr, cout, exits>>
    /\ UNCHANGED <<classifierVars, inputVars, image>>

\* lines 283-286 with the loop staying at the source that failed
ChildFailedRetrySame ==
    /\ pc = "wait"
    /\ ~attempts[child[1]].dry
    /\ Waited(Exited(EX_TEMPFAIL))
    /\ srcIdx < Len(sources)
    /\ srcIdx' = srcIdx
    /\ cerr' = Append(cerr, Msg("failed_from", <<sources[srcIdx]>>))
    /\ pc' = "processSource"
    /\ UNCHANGED <<runs, outputFile, runIdx, sources, classified, resolved,
                   cout, exits>>
    /\ UNCHANGED <<classifierVars, inputVars, image>>

\* lines 244-245 and 283-286: EX_TEMPFAIL, there is a next source
ChildFailedTryNext ==
    /\ pc = "wait"
    /\ ~attempts[child[1]].dry
    /\ Waited(Exited(EX_TEMPFAIL))
    /\ srcIdx < Len(sources)
    /\ srcIdx' = srcIdx + 1
    /\ cerr' = Append(cerr, Msg("failed_from", <<sources[srcIdx]>>))
    /\ pc' = "processSource"
    /\ UNCHANGED <<runs, outputFile, runIdx, sources, classified, resolved,
                   cout, exits>>
    /\ UNCHANGED <<classifierVars, inputVars, image>>

\* lines 287-294 returning as lines 266-270 do: on to the next run
ExhaustedReturns ==
    /\ runIdx' = runIdx + 1
    /\ pc' = "processRun"
    /\ UNCHANGED exits

\* line 293: exit(EX_TEMPFAIL)
Exhausted ==
    /\ Finish(Exit(EX_TEMPFAIL))
    /\ UNCHANGED runIdx

\* lines 244-245 and 283-294: EX_TEMPFAIL from the last source
ChildFailedExhausted ==
    /\ pc = "wait"
    /\ ~attempts[child[1]].dry
    /\ Waited(Exited(EX_TEMPFAIL))
    /\ srcIdx >= Len(sources)
    /\ cerr' = cerr \o << Msg("failed_from", <<sources[srcIdx]>>),
                          Msg("tried", sources) >>
    /\ Exhausted
    /\ UNCHANGED <<runs, outputFile, sources, srcIdx, classified,
                   resolved, cout>>
    /\ UNCHANGED <<classifierVars, inputVars, image>>

\* line 247 with a fixed failure code in place of the child's
ExitStatusFailure(code) == 1

\* line 247: exit(result.exit_code()); exit() keeps the low 8 bits
ExitStatus(code) == code % 256

\* lines 246-247: any other exit code is passed to exit()
ChildQuit ==
    /\ pc = "wait"
    /\ ~attempts[child[1]].dry
    /\ \E code \in ToolErrorCodes :
        /\ Waited(Exited(code))
        /\ cerr' = Append(cerr, Msg("quit", <<code>>))
        /\ Finish(Exit(ExitStatus(code)))
    /\ UNCHANGED <<runs, outputFile, runIdx, sources, srcIdx, classified,
                   resolved, cout>>
    /\ UNCHANGED <<classifierVars, inputVars, image>>

\* line 252 with the shell's convention for a killed child, exit(128 + sig)
KilledOutcomeExit(sig) == Exit(128 + sig)

\* line 252: abort()
KilledOutcome(sig) == Abort

\* lines 249-253: the child was killed by a signal
ChildKilled ==
    /\ \E sig \in Signals :
        /\ Waited(Signaled(sig))
        /\ cerr' = Append(cerr, Msg("killed", <<sig>>))
        /\ Finish(KilledOutcome(sig))
    /\ UNCHANGED <<runs, outputFile, runIdx, sources, srcIdx, classified,
                   resolved, cout>>
    /\ UNCHANGED <<classifierVars, inputVars, image>>

\* lines 523-528: the loop over runs is over
AllRunsProcessed ==
    /\ pc = "processRun"
    /\ runIdx > Len(runs)
    /\ cerr' = Append(cerr, Msg("all_processed", <<>>))
    /\ Finish(Exit(0))
    /\ UNCHANGED <<runs, outputFile, runIdx, sources, srcIdx, child,
                   classified, resolved, attempts, cout>>
    /\ UNCHANGED <<classifierVars, inputVars, image>>

ClassifierIdle ==
    /\ query = <<>>
    /\ phase = [at |-> "idle", digits |-> 0, tail |-> 0]
    /\ atype = 0

DispatcherStart ==
    /\ pc = "processAccessions"
    /\ runs = <<>>
    /\ outputFile = 0
    /\ runIdx = 0
    /\ sources = <<>>
    /\ srcIdx = 0
    /\ child = <<>>
    /\ classified = {}
    /\ resolved = <<>>
    /\ attempts = <<>>
    /\ cerr = <<>>
    /\ cout = <<>>
    /\ exits = <<>>
    /\ image = <<>>

Init ==
    /\ ClassifierIdle
    /\ accessions \in SeqsUpTo(AccessionNames, MaxAccessions)
    /\ readable \in ReadableSets
    /\ unsafeOutputFileParamName \in UnsafeNames
    /\ parameters \in ParamLists
    /\ dryrun \in DryRunValues
    /\ DispatcherStart

Next ==
    \/ EmptyInvocation
    \/ ExpandAllExit
    \/ ProcessAccessions
    \/ DataSourcesEmpty
    \/ DataSources
    \/ RunChild
    \/ ChildSucceeded
    \/ ChildFailedTryNext
    \/ ChildFailedExhausted
    \/ ChildQuit
    \/ ChildKilled
    \/ AllRunsProcessed

Spec == Init /\ [][Next]_vars

\* the dispatcher is one thread that blocks only in wait() (line 237):
\* as long as every child ends, it always takes its next step
SpecFair == Init /\ [][Next]_vars /\ WF_vars(Next)

-----------------------------------------------------------------------------
(* SRA_AccessionType on its own: the query is built a character at a time  *)
(* (some leading characters, then digits, then a tail) and classified      *)
(* after every character.                                                  *)

FreeChars == {"S", "E", "R", "P", "X", "A", "Z", "0", "."}
TailChars == {".", "/", ":", "9"}

Classify(q, at, digits, tail) ==
    /\ query' = q
    /\ phase' = [at |-> at, digits |-> digits, tail |-> tail]
    /\ atype' = SRA_AccessionType(q)
    /\ UNCHANGED <<inputVars, dispatchVars>>

AppendFree ==
    /\ phase.at = "free"
    /\ Len(query) < MaxFreeLen
    /\ \E c \in FreeChars : Classify(Append(query, c), "free", 0, 0)

AppendDigit ==
    /\ phase.at \in {"free", "digits"}
    /\ phase.digits < MaxDigits
    /\ Classify(Append(query, "0"), "digits", phase.digits + 1, 0)

AppendTail ==
    /\ phase.at \in {"free", "digits", "tail"}
    /\ phase.tail < MaxTailLen
    /\ \E c \in TailChars :
        Classify(Append(query, c), "tail", phase.digits, phase.tail + 1)

InitClassify ==
    /\ query = <<>>
    /\ phase = [at |-> "free", digits |-> 0, tail |-> 0]
    /\ atype = SRA_AccessionType(<<>>)
    /\ accessions = <<>>
    /\ readable = {}
    /\ unsafeOutputFileParamName = NULL
    /\ parameters = <<>>
    /\ dryrun = None
    /\ pc = "idle"
    /\ runs = <<>>
    /\ outputFile = 0
    /\ runIdx = 0
    /\ sources = <<>>
    /\ srcIdx = 0
    /\ child = <<>>
    /\ classified = {}
    /\ resolved = <<>>
    /\ attempts = <<>>
    /\ cerr = <<>>
    /\ cout = <<>>
    /\ exits = <<>>
    /\ image = <<>>

NextClassify ==
    \/ AppendFree
    \/ AppendDigit
    \/ AppendTail

SpecClassify == InitClassify /\ [][NextClassify]_vars

-----------------------------------------------------------------------------
(* Properties of SRA_AccessionType.                                        *)

Digits == {"0", "1", "2", "3", "4", "5", "6", "7", "8", "9"}

\* the characters after the three letters, up to the first '.' or the end
DigitPart(q) ==
    LET rest == SubSeq(q, 4, Len(q))
        dots == {i \in DOMAIN rest : rest[i] = "."}
        last == IF dots = {} THEN Len(rest)
                ELSE (CHOOSE i \in dots : \A j \in dots : i <= j) - 1
    IN SubSeq(rest, 1, last)

\* the accession pattern: [DES] R [APRSX] and 6 to 9 digits
IsAccession(q) ==
    /\ Len(q) >= 3
    /\ q[1] \in {"D", "E", "S"}
    /\ q[2] = "R"
    /\ q[3] \in {"A", "P", "R", "S", "X"}
    /\ \A i \in DOMAIN DigitPart(q) : DigitPart(q)[i] \in Digits
    /\ Len(DigitPart(q)) >= 6
    /\ Len(DigitPart(q)) <= 9

\* C10: SRA_AccessionType returns a type (the third letter: R for a run,
\* P, S or X for a container) only for a string made of one of D/E/S, then
\* R, then one of A/P/R/S/X, then 6 to 9 digits that end at the end of the
\* string or at the first '.'; for every other string (5 or fewer digits,
\* 10 or more, another character among the digits, another prefix) it
\* returns 0.
C10_AcceptsOnlyAccessions ==
    phase.at # "idle" =>
        /\ IsAccession(query) => atype = CharCode(query[3])
        /\ ~IsAccession(query) => atype = 0
        /\ atype = TypeR => IsAccession(query) /\ query[3] = "R"
        /\ atype \in ContainerTypes =>
                IsAccession(query) /\ query[3] \in {"P", "S", "X"}

\* a container accession with 9 digits, a '.' and more after it is accepted
C10_Witness ==
    /\ phase.at = "tail"
    /\ IsAccession(query)
    /\ Len(DigitPart(query)) = 9
    /\ Len(query) > 3 + 9 + 1
    /\ atype \in ContainerTypes

-----------------------------------------------------------------------------
(* Properties of the dispatcher, over the histories resolved and attempts. *)

\* the children spawned for run number k, in the order they were spawned
AttemptsOf(k) == SelectSeq(attempts, LAMBDA a : a.run = k)

TempFailed(a) == a.result = Exited(EX_TEMPFAIL)
Succeeded(a) == a.result = Exited(0)

\* C1: for a run with a non-empty source list the sources are tried in
\* resolver order, one child each; a source is tried only after the child
\* of the source before it exited with EX_TEMPFAIL; a child that exits
\* with 0 is the last child of its run.
C1_SourcesInOrderUntilSuccess ==
    \A k \in DOMAIN resolved :
        LET list == resolved[k].sources
            tried == AttemptsOf(k)
        IN list # <<>> =>
            /\ Len(tried) <= Len(list)
            /\ \A j \in DOMAIN tried :
                /\ tried[j].src = j
                /\ tried[j].label = list[j]
                /\ tried[j].arg = resolved[k].run
                /\ j < Len(tried) => TempFailed(tried[j])
                /\ Succeeded(tried[j]) =>
                    /\ j = Len(tried)
                    /\ runIdx > k

\* a run whose first source failed temporarily and whose second succeeded
C1_Witness ==
    \E k \in DOMAIN resolved :
        /\ Len(resolved[k].sources) >= 2
        /\ Len(AttemptsOf(k)) = 2
        /\ TempFailed(AttemptsOf(k)[1])
        /\ Succeeded(AttemptsOf(k)[2])
        /\ AttemptsOf(k)[1].label = resolved[k].sources[1]
        /\ AttemptsOf(k)[2].label = resolved[k].sources[2]

\* the child of the last source of run k exited with EX_TEMPFAIL, as did
\* the children before it
AllSourcesFailed(k) ==
    LET tried == AttemptsOf(k) IN
        /\ tried # <<>>
        /\ tried[Len(tried)].src = Len(resolved[k].sources)
        /\ \A j \in DOMAIN tried : TempFailed(tried[j])

\* C2: when the children of all the sources of a run exited with
\* EX_TEMPFAIL, every source was tried once, the dispatcher has exited
\* with EX_TEMPFAIL and no later run was resolved or given a child.
C2_ExhaustedSourcesAreFatal ==
    \A k \in DOMAIN resolved :
        AllSourcesFailed(k) =>
            /\ Len(AttemptsOf(k)) = Len(resolved[k].sources)
            /\ \A j \in DOMAIN AttemptsOf(k) :
                    AttemptsOf(k)[j].label = resolved[k].sources[j]
            /\ pc = "done"
            /\ exits = << Exit(EX_TEMPFAIL) >>
            /\ Len(resolved) = k
            /\ \A i \in DOMAIN attempts : attempts[i].run <= k

\* two sources failed for a run that is not the last of the run list
C2_Witness ==
    \E k \in DOMAIN resolved :
        /\ AllSourcesFailed(k)
        /\ Len(resolved[k].sources) = 2
        /\ k < Len(runs)
        /\ exits # <<>>

\* the child exited with a code other than 0 and EX_TEMPFAIL
Quit(a) ==
    /\ a.result.kind = "exited"
    /\ a.result.code \notin {0, EX_TEMPFAIL}

\* C5: when a child exits with a code c other than 0 and EX_TEMPFAIL, the
\* dispatcher has exited with code c, and that child is the last one: no
\* further source, no further run.
C5_ToolErrorIsPassedThrough ==
    \A i \in DOMAIN attempts :
        Quit(attempts[i]) =>
            /\ pc = "done"
            /\ exits = << Exit(attempts[i].result.code) >>
            /\ i = Len(attempts)
            /\ Len(resolved) = attempts[i].run

\* a child quit with error code 3 while a source and a run were left
C5_Witness ==
    /\ attempts # <<>>
    /\ attempts[Len(attempts)].result = Exited(3)
    /\ srcIdx < Len(sources)
    /\ runIdx < Len(runs)
    /\ exits = << Exit(3) >>

\* C6: when a child is killed by a signal, the dispatcher has aborted (its
\* end is not an exit with a code), and that child is the last one.
C6_KilledChildAborts ==
    \A i \in DOMAIN attempts :
        attempts[i].result.kind = "signaled" =>
            /\ pc = "done"
            /\ exits = << Abort >>
            /\ \A e \in DOMAIN exits : exits[e].kind # "exit"
            /\ i = Len(attempts)
            /\ Len(resolved) = attempts[i].run

\* a child was killed while a source and a run were left
C6_Witness ==
    /\ attempts # <<>>
    /\ attempts[Len(attempts)].result.kind = "signaled"
    /\ srcIdx < Len(sources)
    /\ runIdx < Len(runs)
    /\ exits = << Abort >>

\* C3: when data_sources returns an empty list for a run, the dispatcher
\* stops there: no later run is resolved or given a child, and the
\* dispatcher ends by exiting with EX_TEMPFAIL.
C3_EmptySourceListIsFatal ==
    \A k \in DOMAIN resolved :
        resolved[k].sources = <<>> =>
            /\ Len(resolved) = k
            /\ \A i \in DOMAIN attempts : attempts[i].run <= k
            /\ pc = "done" => exits = << Exit(EX_TEMPFAIL) >>

\* run number k had a child that exited with 0
RunSucceeded(k) ==
    \E i \in DOMAIN attempts :
        attempts[i].run = k /\ Succeeded(attempts[i])

AllProcessedNotice ==
    \E i \in DOMAIN cerr : cerr[i].msg = "all_processed"

\* C4: the dispatcher says that all runs were processed and exits with 0
\* only if every run of the run list had a child that exited with 0, and
\* the dispatcher ends at most once.
C4_ExitZeroOnlyIfAllRunsSucceeded ==
    /\ Len(exits) <= 1
    /\ (AllProcessedNotice \/ Exit(0) \in Range(exits)) =>
            \A k \in DOMAIN runs : RunSucceeded(k)

-----------------------------------------------------------------------------
(* Properties of expandAll.                                                *)

\* an accession of a project, a sample or an experiment
IsContainerAccession(a) == IsAccession(a) /\ a[3] \in {"P", "S", "X"}

\* the container accessions of the input that are not readable files
Offenders == {a \in Range(accessions) : a \notin readable
                                        /\ IsContainerAccession(a)}

\* the accessions the container diagnostics name, in the order printed
ContainerDiagnostics ==
    LET said == SelectSeq(cerr, LAMBDA m : m.msg = "container")
    IN [i \in DOMAIN said |-> said[i].text]

FirstIndex(s, x) ==
    CHOOSE i \in DOMAIN s : s[i] = x /\ \A j \in 1..(i - 1) : s[j] # x

\* rs holds the distinct elements of s in the order of their first occurrence
IsFirstOccurrences(rs, s) ==
    /\ Range(rs) = Range(s)
    /\ \A i, j \in DOMAIN rs :
        i < j => /\ rs[i] # rs[j]
                 /\ FirstIndex(s, rs[i]) < FirstIndex(s, rs[j])

Expanded == pc # "processAccessions" /\ accessions # <<>>

\* C7: when the input has a container accession that is not a readable
\* file, expandAll names every distinct such accession of the whole input
\* in one diagnostic each and exits with EX_UNAVAILABLE: there is no run
\* list, no data_sources call and no child.
C7_ContainersAbortAfterFullScan ==
    (Expanded /\ Offenders # {}) =>
        /\ pc = "done"
        /\ exits = << Exit(EX_UNAVAILABLE) >>
        /\ Range(ContainerDiagnostics) = Offenders
        /\ Len(ContainerDiagnostics) = Cardinality(Offenders)
        /\ cerr[Len(cerr)].msg = "no_expansion"
        /\ runs = <<>>
        /\ resolved = <<>>
        /\ attempts = <<>>

\* the scan went on after the first container and named a second one
C7_Witness ==
    /\ Expanded
    /\ Len(accessions) >= 2
    /\ IsContainerAccession(accessions[1])
    /\ ContainerDiagnostics = << accessions[1], accessions[Len(accessions)] >>
    /\ accessions[1] # accessions[Len(accessions)]
    /\ exits = << Exit(EX_UNAVAILABLE) >>

\* C8: for an input without container accessions, expandAll returns the
\* distinct input strings, each once, in the order of first occurrence.
C8_RunsAreFirstOccurrences ==
    (Expanded /\ Offenders = {}) => IsFirstOccurrences(runs, accessions)

\* an input that ends with a repetition of its first string
C8_Witness ==
    /\ Expanded
    /\ Len(accessions) >= 2
    /\ accessions[1] = accessions[Len(accessions)]
    /\ Len(runs) = Len(accessions) - 1
    /\ runs = SubSeq(accessions, 1, Len(accessions) - 1)

\* C9: an accession that is a readable file is not classified, is never
\* named by a container diagnostic and never makes expandAll exit with
\* EX_UNAVAILABLE; when expandAll returns it is in the run list as given,
\* whatever its name looks like.
C9_ReadableFilesPassThrough ==
    Expanded =>
        /\ \A a \in Range(accessions) \cap readable :
            /\ a \notin classified
            /\ a \notin Range(ContainerDiagnostics)
            /\ (Offenders = {}) => a \in Range(runs)
        /\ Exit(EX_UNAVAILABLE) \in Range(exits) => Offenders # {}

\* a readable file named like a project was given to a child as the run
C9_Witness ==
    /\ \E a \in Range(accessions) \cap readable : IsContainerAccession(a)
    /\ \E i \in DOMAIN attempts :
        /\ attempts[i].arg \in readable
        /\ IsContainerAccession(attempts[i].arg)
        /\ Succeeded(attempts[i])

-----------------------------------------------------------------------------
(* Properties of the output-file rewrite and of the empty invocation.      *)

\* the entries of the parameters named as the unsafe output parameter whose
\* value is not /dev/null
OutputEntries ==
    {i \in DOMAIN parameters :
        /\ unsafeOutputFileParamName # NULL
        /\ parameters[i].first = unsafeOutputFileParamName
        /\ parameters[i].second # None
        /\ parameters[i].second # Some(DevNull)}

\* more than one run, and the unsafe output parameter is given a real file
SharedOutputFile == Len(runs) > 1 /\ OutputEntries # {}

FilesNotice == Msg("files", [k \in DOMAIN runs |-> runs[k] \o extension])

Dispatched == resolved # <<>> \/ attempts # <<>>

\* C11: with more than one run and the unsafe output parameter given a
\* value other than /dev/null, the notice that lists run + extension for
\* every run is on std::cout before any data_sources call or child, and
\* every child of a run gets that parameter with the value run + extension.
C11_NoticeFirstThenPerRunOutput ==
    SharedOutputFile =>
        /\ Dispatched => cout = << FilesNotice >>
        /\ pc # "processAccessions" => cout = << FilesNotice >>
        /\ \A i \in DOMAIN attempts : \A j \in OutputEntries :
                attempts[i].argv[j].second
                    = Some(runs[attempts[i].run] \o extension)

\* the second of two runs got a child with its own output file
C11_Witness ==
    /\ SharedOutputFile
    /\ \E i \in DOMAIN attempts : \E j \in OutputEntries :
        /\ attempts[i].run = 2
        /\ attempts[i].argv[j].second = Some(runs[2] \o extension)
        /\ runs[2] # runs[1]
        /\ parameters[j].second = Some(OutFq)

\* C12: with an empty accession list the dispatcher is replaced by the
\* tool run with no parameter and no run, and does nothing else: nothing
\* is classified or resolved, no child is spawned, nothing is printed and
\* the dispatcher does not exit by itself.
C12_EmptyListExecsBareTool ==
    (accessions = <<>> /\ pc # "processAccessions") =>
        /\ pc = "done"
        /\ image = << <<>> >>
        /\ exits = << Exec >>
        /\ runs = <<>>
        /\ classified = {}
        /\ resolved = <<>>
        /\ attempts = <<>>
        /\ cerr = <<>>
        /\ cout = <<>>

\* the tool replaced the dispatcher although parameters were given
C12_Witness ==
    /\ accessions = <<>>
    /\ parameters # <<>>
    /\ Len(parameters) > 1
    /\ image # <<>>
    /\ exits = << Exec >>

-----------------------------------------------------------------------------
(* Properties of the dry run.                                              *)

\* SRATOOLS_DRY_RUN is set to a non-empty value other than "0"
DryRunOn == dryrun \notin {None, Some(<<>>), Some(<<"0">>)}

-----------------------------------------------------------------------------
(* More properties of expandAll.                                           *)

\* C14: expandAll applied to a list it returned returns that list again,
\* element for element, and does not exit.
C14_ExpandAllIdempotent ==
    (Expanded /\ ~expandAll(accessions).failed) =>
        /\ expandAll(runs).result = runs
        /\ ~expandAll(runs).failed
        /\ expandAll(runs).diag = <<>>

\* the input had a repetition: the list returned is shorter than the input
\* and a second pass returns it again
C14_Witness ==
    /\ Expanded
    /\ ~expandAll(accessions).failed
    /\ Len(runs) >= 1
    /\ runs # accessions
    /\ expandAll(runs).result = runs

-----------------------------------------------------------------------------
(* Properties of the order of dispatch.                                    *)

\* the children that were spawned and whose end was not yet seen
ChildrenAlive == {i \in DOMAIN attempts : attempts[i].result = Running}

AtMostOneChild ==
    /\ Cardinality(ChildrenAlive) <= 1
    /\ ChildrenAlive # {} => pc = "wait" /\ child = << Len(attempts) >>
                             /\ ChildrenAlive = {Len(attempts)}
    /\ ChildrenAlive = {} => child = <<>> /\ pc # "wait"

\* while a child is alive the only step is the one that sees it end
OnlyWaitWhileChildAlive ==
    ChildrenAlive # {} =>
        /\ ChildrenAlive' = {}
        /\ Len(attempts') = Len(attempts)
        /\ resolved' = resolved
        /\ classified' = classified
        /\ cout' = cout

\* the result seen for a child is never changed
StatusConsumedOnce ==
    \A i \in DOMAIN attempts :
        attempts[i].result # Running =>
            /\ i \in DOMAIN attempts'
            /\ attempts'[i].result = attempts[i].result

\* C15: at most one child is alive at any time; between the spawning of a
\* child and the step that sees it end the dispatcher does nothing (no
\* classification, no data_sources call, no other child); the status of a
\* child is taken once and stays as taken.
C15_OneChildAtATime ==
    /\ []AtMostOneChild
    /\ [][OnlyWaitWhileChildAlive /\ StatusConsumedOnce]_vars

\* the child of a second source is alive after the first one's end was seen
C15_Witness ==
    /\ pc = "wait"
    /\ Len(attempts) = 2
    /\ attempts[1].result = Exited(EX_TEMPFAIL)
    /\ ChildrenAlive = {2}

\* the strings given to data_sources or to a child as the run
DispatchedRuns ==
    {resolved[k].run : k \in DOMAIN resolved}
        \cup {attempts[i].arg : i \in DOMAIN attempts}

\* C16 as claimed: no string of the run list, and so no string given to
\* data_sources or to a child, is classified as a container (P, S or X).
C16_NoContainerInRunList ==
    \A r \in Range(runs) \cup DispatchedRuns :
        SRA_AccessionType(r) \notin ContainerTypes

\* C16 as amended: every string of the run list, and so every string given
\* to data_sources or to a child, is a readable file or is not a container
\* accession (it is a run, or it is not recognized).
C16_NoUnreadableContainerInRunList ==
    /\ DispatchedRuns \subseteq Range(runs)
    /\ \A r \in Range(runs) :
        \/ r \in readable
        \/ ~IsContainerAccession(r)

\* a readable file named like a project and a string that is not
\* recognized were both given to a child
C16_Witness ==
    /\ Len(runs) = 2
    /\ runs[1] \in readable /\ IsContainerAccession(runs[1])
    /\ ~IsAccession(runs[2])
    /\ \E i, j \in DOMAIN attempts :
        attempts[i].arg = runs[1] /\ attempts[j].arg = runs[2]

\* C17: runs are dispatched one at a time in the order of the run list:
\* the k-th call of data_sources is for the k-th run, the children come
\* in the order of their runs, each for a run whose sources were asked
\* for, and data_sources is called for run k+1 (and so a child of run k+1
\* is spawned) only after a child of run k exited with 0.
C17_NextRunOnlyAfterSuccess ==
    /\ Len(resolved) <= Len(runs)
    /\ \A k \in DOMAIN resolved : resolved[k].run = runs[k]
    /\ \A i \in DOMAIN attempts :
        /\ attempts[i].run \in DOMAIN resolved
        /\ attempts[i].arg = runs[attempts[i].run]
    /\ \A i, j \in DOMAIN attempts :
        i < j => attempts[i].run <= attempts[j].run
    /\ \A k \in DOMAIN resolved : k > 1 => RunSucceeded(k - 1)

----------------------------------------------------------------------------
(* Properties of the parameters a child gets.                              *)

\* C18: every child gets as many parameters as the user gave, with the
\* same names in the same order, and with the same values except for the
\* value of the output-file entry: nothing is added, removed or moved,
\* whatever the run and the source of the child.
C18_OnlyOutputValueChanges ==
    \A i \in DOMAIN attempts :
        LET argv == attempts[i].argv IN
        /\ Len(argv) = Len(parameters)
        /\ \A j \in DOMAIN parameters :
            /\ argv[j].first = parameters[j].first
            /\ j \notin OutputEntries => argv[j].second = parameters[j].second

\* two sources of the first run and one of the second run got a child,
\* each with three parameters of which only the output file was rewritten
C18_Witness ==
    /\ SharedOutputFile
    /\ Len(parameters) = 3
    /\ Len(attempts) = 3
    /\ attempts[1].run = 1 /\ attempts[2].run = 1 /\ attempts[3].run = 2
    /\ \A i \in DOMAIN attempts : \E j \in OutputEntries :
        /\ attempts[i].argv[j].second # parameters[j].second
        /\ attempts[i].argv[j].first = "--outfile"

\* C19: unless the run list has more than one run, a name of an unsafe
\* output parameter is configured and the parameter of that name has a
\* value other than /dev/null, the list of files is not printed and every
\* child gets the parameters of the user unchanged.
C19_NoRewriteUnlessShared ==
    ~SharedOutputFile =>
        /\ \A i \in DOMAIN cout : cout[i].msg # "files"
        /\ \A i \in DOMAIN attempts : attempts[i].argv = parameters

\* two equal accessions became one run, whose child got the output file
\* the user named
C19_Witness ==
    /\ Len(accessions) = 2 /\ Len(runs) = 1
    /\ unsafeOutputFileParamName # NULL
    /\ OutputEntries # {}
    /\ cout = <<>>
    /\ \E i \in DOMAIN attempts : \E j \in OutputEntries :
        /\ attempts[i].argv = parameters
        /\ attempts[i].argv[j].second = Some(OutFq)

----------------------------------------------------------------------------
(* Termination.                                                            *)

RECURSIVE SumOfSourceLengths(_)
SumOfSourceLengths(rs) ==
    IF rs = <<>> THEN 0
    ELSE Len(rs[1].sources) + SumOfSourceLengths(Tail(rs))

\* the ways a dispatch can end
TerminalOutcomes ==
    {Exit(0), Exit(EX_TEMPFAIL), Exit(EX_UNAVAILABLE), Abort, Exec}
        \cup {Exit(code) : code \in ToolErrorCodes}

Terminated == pc = "done"

\* C20: if every child ends, every dispatch ends, in exactly one of the
\* terminal outcomes (exit 0, EX_TEMPFAIL, EX_UNAVAILABLE, the exit code of
\* a child, abort, or the exec of the tool, the last only for an empty
\* accession list); after that no child is spawned; and the number of
\* children spawned is never above the sum of the lengths of the source
\* lists of the runs.
C20_DispatchTerminates ==
    /\ <>Terminated
    /\ [](Len(exits) <= 1)
    /\ [](Terminated =>
            /\ Len(exits) = 1
            /\ exits[1] \in TerminalOutcomes
            /\ exits[1] = Exec <=> accessions = <<>>
            /\ child = <<>>)
    /\ [][Terminated => attempts' = attempts /\ exits' = exits]_vars
    /\ [](Len(attempts) <= SumOfSourceLengths(resolved))

\* the dispatch of two runs ended with exit 0 after as many children as
\* the resolver gave sources, four of them
C20_Witness ==
    /\ Terminated
    /\ exits = << Exit(0) >>
    /\ Len(resolved) = 2
    /\ Len(attempts) = SumOfSourceLengths(resolved)
    /\ Len(attempts) = 4

====
